---- MODULE Spec2Model ----
(***************************************************************************)
(* Ledger-Ts: the double-entry transaction engine.                         *)
(*                                                                         *)
(* TransactionService.create (services/transaction.service.ts) is modelled *)
(* one storage round trip (one await) per step, against a store with       *)
(* PostgreSQL's default READ COMMITTED semantics: a statement reads the    *)
(* rows committed when it runs plus its own unit's writes, an UPDATE holds *)
(* the row until the writing unit ends, and a unit's rows become visible   *)
(* together at COMMIT.                                                     *)
(***************************************************************************)
EXTENDS Integers, Sequences, FiniteSets, TLC

\* ---------------------------------------------------------------- bounds
\* Longest entry list of a request of the single-call specification.
MaxLen == 3
\* Transaction ids the store hands out before the model stops taking requests.
MaxTx == 3

\* ---------------------------------------------------------------- data
Procs == {"p1", "p2"}
Users == {"u1", "u2"}

\* Account ids a request may name; "X" is the id of no account.
AccountIds == {"A", "L", "E", "U", "C", "X"}

\* Amounts (minor units) a request may carry.
Amounts == {-2, -1, 0, 1, 2}

\* AccountService.create: a new account row always starts with balance 0n.
NewAccount(ownerId, type, currency) ==
    [ownerId |-> ownerId, type |-> type, currency |-> currency, balance |-> 0]

\* The account store after the accounts have been created.
AccountStore ==
    [a \in {"A", "L", "E", "U", "C", "D"} |->
        CASE a = "A" -> NewAccount("u1", "ASSET", "BRL")
          [] a = "L" -> NewAccount("u1", "LIABILITY", "BRL")
          [] a = "E" -> NewAccount("u1", "EQUITY", "BRL")
          [] a = "U" -> NewAccount("u1", "ASSET", "USD")
          [] a = "C" -> NewAccount("u2", "ASSET", "USD")
          [] a = "D" -> NewAccount("u2", "LIABILITY", "USD")]

Existing == DOMAIN AccountStore

Entry(a, x) == [accountId |-> a, amount |-> x]

\* Every entry list of at most MaxLen entries over the ids and amounts.
AllEntries ==
    UNION {[1..n -> {Entry(a, x) : a \in AccountIds, x \in Amounts}] :
             n \in 0..MaxLen}

\* The requests of the concurrent specification: one unit moved between the
\* ASSET and the LIABILITY account of u1, either way, either entry first.
Workload ==
    {<<Entry(ab[1], -x), Entry(ab[2], x)>> :
        ab \in {<<"A", "L">>, <<"L", "A">>}, x \in {-1, 1}}

\* The requests of the sequential specification: every list of one or two
\* entries over two accounts of u1, an account of u2 and a missing id, and
\* the three-entry lists that split two units of "A" over "L" and "E".
SeqWorkload ==
    UNION {[1..n -> {Entry(a, x) : a \in {"A", "L", "C", "X"},
                                   x \in {-1, 0, 1}}] : n \in {1, 2}}
    \cup {<<Entry("A", 2 * x), Entry("L", -x), Entry("E", -x)>> : x \in {-1, 1}}

EmptyWrites == [a \in {} |-> 0]
NoUnit == [tx |-> 0, entries |-> <<>>, writes |-> EmptyWrites]

\* Emails a registration may carry.
Emails == {"e1", "e2"}

\* No customer registered, no register() called.
NoCustomers ==
    [customers |-> <<>>,
     call |-> [p \in Procs |-> [pc |-> "idle", email |-> "e1", res |-> "none",
                                created |-> 0, before |-> <<>>]]]

\* No read-side call made yet: nothing asked, nothing returned.
ReaderIdle ==
    [pc |-> "idle", op |-> "none", actor |-> "u1", id |-> 0,
     accountId |-> "none", page |-> 0, limit |-> 0, error |-> "none",
     tx |-> [id |-> 0, entries |-> <<>>], list |-> <<>>, count |-> 0,
     total |-> 0, cached |-> 0, inSync |-> FALSE,
     fresh |-> FALSE, repeat |-> FALSE, prevTotal |-> 0,
     pre |-> [balance |-> [a \in Existing |-> 0],
              transactions |-> <<>>, ledgerEntries |-> <<>>]]

VARIABLES
    balance,        \* committed accounts.balance, per account id
    transactions,   \* committed rows of table transactions, in commit order
    ledgerEntries,  \* committed rows of table ledger_entries, in insert order
    nextId,         \* next transaction id the store generates
    pc,             \* per call: where create() stands
    req,            \* per call: data.ledger_entries and authenticatedUserId
    res,            \* per call: "ok" or the error thrown
    idx,            \* per call: index of the entry the loop is at
    account,        \* per call: balance of the row findOne returned
    unit,           \* per call: the query runner's uncommitted rows
    pre,            \* per call: the committed store when the call was made
    rd,             \* the read-side call: its position, arguments and result
    reg             \* table customers, and per task where register() stands

vars == <<balance, transactions, ledgerEntries, nextId, pc, req, res, idx,
          account, unit, pre, rd, reg>>

Store == [balance |-> balance, transactions |-> transactions,
          ledgerEntries |-> ledgerEntries]

\* ---------------------------------------------------------------- pure parts
RECURSIVE SumAmounts(_)
\* data.ledger_entries.reduce((acc, entry) => acc + entry.amount, 0n)
SumAmounts(entries) ==
    IF entries = <<>> THEN 0
    ELSE entries[1].amount + SumAmounts(Tail(entries))

\* Validate without the sum check of lines 30-33.
ValidateNoSum(entries) ==
    IF Len(entries) < 2 THEN "InvalidEntryCount"
    ELSE IF \E i \in 1..Len(entries) : entries[i].amount = 0
         THEN "ZeroAmountEntry"
    ELSE "ok"

\* create(), lines 30-41: the three structural checks, in the code's order.
Validate(entries) ==
    IF SumAmounts(entries) # 0 THEN "UnbalancedTransaction"
    ELSE IF Len(entries) < 2 THEN "InvalidEntryCount"
    ELSE IF \E i \in 1..Len(entries) : entries[i].amount = 0
         THEN "ZeroAmountEntry"
    ELSE "ok"

\* accountRepository.find({where: accountIds.map(id => ({id}))}): the rows
\* whose id is one of the listed ids, each row once.
FindAccounts(entries) ==
    {entries[i].accountId : i \in 1..Len(entries)} \cap Existing

\* FloorFails without the test of the account type of line 69.
FloorFailsAnyType(entries, bal) ==
    \E i \in 1..Len(entries) :
        /\ entries[i].accountId \in Existing
        /\ bal[entries[i].accountId] + entries[i].amount < 0

\* Lines 65-77: some entry on an ASSET account takes the balance read for
\* that account below 0 (the loop throws at the first such entry).
FloorFails(entries, bal) ==
    \E i \in 1..Len(entries) :
        /\ entries[i].accountId \in Existing
        /\ AccountStore[entries[i].accountId].type = "ASSET"
        /\ bal[entries[i].accountId] + entries[i].amount < 0

\* Authorize without the currency check of lines 60-63.
AuthorizeNoCurrency(entries, authenticatedUserId, bal) ==
    LET accounts == FindAccounts(entries) IN
    IF Cardinality(accounts) # Len(entries) THEN "AccountNotFound"
    ELSE IF \E a \in accounts : AccountStore[a].ownerId # authenticatedUserId
         THEN "Forbidden"
    ELSE IF FloorFails(entries, bal) THEN "InsufficientBalance"
    ELSE "ok"

\* Authorize comparing the balances before it checks the owners.
AuthorizeFloorFirst(entries, authenticatedUserId, bal) ==
    LET accounts == FindAccounts(entries) IN
    IF Cardinality(accounts) # Len(entries) THEN "AccountNotFound"
    ELSE IF FloorFails(entries, bal) THEN "InsufficientBalance"
    ELSE IF \E a \in accounts : AccountStore[a].ownerId # authenticatedUserId
         THEN "Forbidden"
    ELSE IF Cardinality({AccountStore[a].currency : a \in accounts}) > 1
         THEN "CurrencyMismatch"
    ELSE "ok"

\* create(), lines 43-77: resolution, ownership, currency, pre-check, run
\* against the rows read by the one find() of line 44.
Authorize(entries, authenticatedUserId, bal) ==
    LET accounts == FindAccounts(entries) IN
    IF Cardinality(accounts) # Len(entries) THEN "AccountNotFound"
    ELSE IF \E a \in accounts : AccountStore[a].ownerId # authenticatedUserId
         THEN "Forbidden"
    ELSE IF Cardinality({AccountStore[a].currency : a \in accounts}) > 1
         THEN "CurrencyMismatch"
    ELSE IF FloorFails(entries, bal) THEN "InsufficientBalance"
    ELSE "ok"

\* ---------------------------------------------------------------- store
\* Rows another call's unit has written and not yet committed or rolled back.
LockedByOther(p, a) == \E q \in Procs \ {p} : a \in DOMAIN unit[q].writes

\* queryRunner.manager.findOne(Account, ...): the unit's own write if it made
\* one, else the committed row.
ReadBalance(p, a) ==
    IF a \in DOMAIN unit[p].writes THEN unit[p].writes[a] ELSE balance[a]

\* Calls that will still draw a transaction id.
Pending == {q \in Procs : pc[q] \in {"find", "begin", "saveTx"}}

Init ==
    /\ balance = [a \in Existing |-> AccountStore[a].balance]
    /\ transactions = <<>>
    /\ ledgerEntries = <<>>
    /\ nextId = 1
    /\ pc = [p \in Procs |-> "idle"]
    /\ req = [p \in Procs |-> [entries |-> <<>>, actor |-> "u1"]]
    /\ res = [p \in Procs |-> "none"]
    /\ idx = [p \in Procs |-> 0]
    /\ account = [p \in Procs |-> 0]
    /\ unit = [p \in Procs |-> NoUnit]
    /\ pre = [p \in Procs |-> [balance |-> [a \in Existing |-> 0],
                               transactions |-> <<>>, ledgerEntries |-> <<>>]]
    /\ rd = ReaderIdle
    /\ reg = NoCustomers

\* ---------------------------------------------------------------- create()
\* The call and its synchronous part, lines 30-41.
Create(p, entries, authenticatedUserId) ==
    /\ pc[p] \in {"idle", "done"}
    /\ nextId + Cardinality(Pending) <= MaxTx
    /\ req' = [req EXCEPT ![p] = [entries |-> entries,
                                  actor |-> authenticatedUserId]]
    /\ pre' = [pre EXCEPT ![p] = Store]
    /\ res' = [res EXCEPT ![p] =
                 IF Validate(entries) = "ok" THEN "none" ELSE Validate(entries)]
    /\ pc' = [pc EXCEPT ![p] =
                 IF Validate(entries) = "ok" THEN "find" ELSE "done"]
    /\ idx' = [idx EXCEPT ![p] = 0]
    /\ account' = [account EXCEPT ![p] = 0]
    /\ UNCHANGED <<balance, transactions, ledgerEntries, nextId, unit, rd, reg>>

\* Find opening the unit although the pre-check of lines 65-77 failed.
FindSkipsPreCheck(p) ==
    /\ pc[p] = "find"
    /\ LET r == Authorize(req[p].entries, req[p].actor, balance) IN
        /\ res' = [res EXCEPT ![p] =
                     IF r \in {"ok", "InsufficientBalance"} THEN "none" ELSE r]
        /\ pc' = [pc EXCEPT ![p] =
                     IF r \in {"ok", "InsufficientBalance"} THEN "begin"
                     ELSE "done"]
    /\ UNCHANGED <<balance, transactions, ledgerEntries, nextId, req, idx,
                   account, unit, pre, rd, reg>>

\* Lines 43-77: the find() and the checks run on its result.
Find(p) ==
    /\ pc[p] = "find"
    /\ LET r == Authorize(req[p].entries, req[p].actor, balance) IN
        /\ res' = [res EXCEPT ![p] = IF r = "ok" THEN "none" ELSE r]
        /\ pc' = [pc EXCEPT ![p] = IF r = "ok" THEN "begin" ELSE "done"]
    /\ UNCHANGED <<balance, transactions, ledgerEntries, nextId, req, idx,
                   account, unit, pre, rd, reg>>

\* Lines 79-81: createQueryRunner, connect, startTransaction.
Begin(p) ==
    /\ pc[p] = "begin"
    /\ unit' = [unit EXCEPT ![p] = NoUnit]
    /\ pc' = [pc EXCEPT ![p] = "saveTx"]
    /\ UNCHANGED <<balance, transactions, ledgerEntries, nextId, req, res,
                   idx, account, pre, rd, reg>>

\* SaveTransaction giving every transaction row the same id.
SaveTransactionSameId(p) ==
    /\ pc[p] = "saveTx"
    /\ unit' = [unit EXCEPT ![p].tx = 1]
    /\ nextId' = nextId + 1
    /\ idx' = [idx EXCEPT ![p] = 1]
    /\ pc' = [pc EXCEPT ![p] =
                 IF Len(req[p].entries) >= 1 THEN "saveEntry" ELSE "commit"]
    /\ UNCHANGED <<balance, transactions, ledgerEntries, req, res, account,
                   pre, rd, reg>>

\* Lines 84-91: the transaction row is inserted; the store generates its id.
SaveTransaction(p) ==
    /\ pc[p] = "saveTx"
    /\ unit' = [unit EXCEPT ![p].tx = nextId]
    /\ nextId' = nextId + 1
    /\ idx' = [idx EXCEPT ![p] = 1]
    /\ pc' = [pc EXCEPT ![p] =
                 IF Len(req[p].entries) >= 1 THEN "saveEntry" ELSE "commit"]
    /\ UNCHANGED <<balance, transactions, ledgerEntries, req, res, account,
                   pre, rd, reg>>

\* SaveEntry inserting the first element of the list at every turn of the loop.
SaveEntryFirst(p) ==
    /\ pc[p] = "saveEntry"
    /\ unit' = [unit EXCEPT ![p].entries =
                  Append(@, [transactionId |-> unit[p].tx,
                             accountId |-> req[p].entries[1].accountId,
                             amount |-> req[p].entries[1].amount])]
    /\ pc' = [pc EXCEPT ![p] = "findAccount"]
    /\ UNCHANGED <<balance, transactions, ledgerEntries, nextId, req, res,
                   idx, account, pre, rd, reg>>

\* Lines 95-102: the ledger entry of the loop's current element is inserted.
SaveEntry(p) ==
    /\ pc[p] = "saveEntry"
    /\ unit' = [unit EXCEPT ![p].entries =
                  Append(@, [transactionId |-> unit[p].tx,
                             accountId |-> req[p].entries[idx[p]].accountId,
                             amount |-> req[p].entries[idx[p]].amount])]
    /\ pc' = [pc EXCEPT ![p] = "findAccount"]
    /\ UNCHANGED <<balance, transactions, ledgerEntries, nextId, req, res,
                   idx, account, pre, rd, reg>>

\* Lines 104-106: the account row is read inside the unit, without a lock.
FindAccount(p) ==
    /\ pc[p] = "findAccount"
    /\ account' = [account EXCEPT ![p] =
                     ReadBalance(p, req[p].entries[idx[p]].accountId)]
    /\ pc' = [pc EXCEPT ![p] = "saveAccount"]
    /\ UNCHANGED <<balance, transactions, ledgerEntries, nextId, req, res,
                   idx, unit, pre, rd, reg>>

\* SaveAccount writing the committed row at once, outside the unit of work.
SaveAccountOutsideUnit(p) ==
    /\ pc[p] = "saveAccount"
    /\ LET a == req[p].entries[idx[p]].accountId IN
        /\ ~LockedByOther(p, a)
        /\ balance' = [balance EXCEPT
                          ![a] = account[p] + req[p].entries[idx[p]].amount]
    /\ idx' = [idx EXCEPT ![p] = @ + 1]
    /\ pc' = [pc EXCEPT ![p] =
                 IF idx[p] < Len(req[p].entries) THEN "saveEntry" ELSE "commit"]
    /\ UNCHANGED <<transactions, ledgerEntries, nextId, req, res, account,
                   unit, pre, rd, reg>>

\* SaveAccount applying the amounts above 0 only.
SaveAccountCreditsOnly(p) ==
    /\ pc[p] = "saveAccount"
    /\ LET a == req[p].entries[idx[p]].accountId
           x == req[p].entries[idx[p]].amount IN
        /\ ~LockedByOther(p, a)
        /\ unit' = [unit EXCEPT ![p].writes =
                      (a :> (account[p] + (IF x > 0 THEN x ELSE 0))) @@ @]
    /\ idx' = [idx EXCEPT ![p] = @ + 1]
    /\ pc' = [pc EXCEPT ![p] =
                 IF idx[p] < Len(req[p].entries) THEN "saveEntry" ELSE "commit"]
    /\ UNCHANGED <<balance, transactions, ledgerEntries, nextId, req, res,
                   account, pre, rd, reg>>

\* SaveAccount writing the amount itself instead of balance + amount.
SaveAccountAssign(p) ==
    /\ pc[p] = "saveAccount"
    /\ LET a == req[p].entries[idx[p]].accountId IN
        /\ ~LockedByOther(p, a)
        /\ unit' = [unit EXCEPT ![p].writes =
                      (a :> req[p].entries[idx[p]].amount) @@ @]
    /\ idx' = [idx EXCEPT ![p] = @ + 1]
    /\ pc' = [pc EXCEPT ![p] =
                 IF idx[p] < Len(req[p].entries) THEN "saveEntry" ELSE "commit"]
    /\ UNCHANGED <<balance, transactions, ledgerEntries, nextId, req, res,
                   account, pre, rd, reg>>

\* Lines 107-110: the balance read is increased by the amount and written
\* back; the UPDATE waits while another unit holds the row.
SaveAccount(p) ==
    /\ pc[p] = "saveAccount"
    /\ LET a == req[p].entries[idx[p]].accountId IN
        /\ ~LockedByOther(p, a)
        /\ unit' = [unit EXCEPT ![p].writes =
                      (a :> (account[p] + req[p].entries[idx[p]].amount)) @@ @]
    /\ idx' = [idx EXCEPT ![p] = @ + 1]
    /\ pc' = [pc EXCEPT ![p] =
                 IF idx[p] < Len(req[p].entries) THEN "saveEntry" ELSE "commit"]
    /\ UNCHANGED <<balance, transactions, ledgerEntries, nextId, req, res,
                   account, pre, rd, reg>>

\* Commit replacing the committed ledger entries by those of the unit.
CommitOverwritesEntries(p) ==
    /\ pc[p] = "commit"
    /\ transactions' = Append(transactions,
                              [id |-> unit[p].tx, actorId |-> req[p].actor])
    /\ ledgerEntries' = unit[p].entries
    /\ balance' = [a \in Existing |->
                     IF a \in DOMAIN unit[p].writes THEN unit[p].writes[a]
                     ELSE balance[a]]
    /\ unit' = [unit EXCEPT ![p] = NoUnit]
    /\ res' = [res EXCEPT ![p] = "ok"]
    /\ pc' = [pc EXCEPT ![p] = "done"]
    /\ idx' = [idx EXCEPT ![p] = 0]
    /\ account' = [account EXCEPT ![p] = 0]
    /\ UNCHANGED <<nextId, req, pre, rd, reg>>

\* Commit that leaves the balance writes of the unit out.
CommitWithoutBalances(p) ==
    /\ pc[p] = "commit"
    /\ transactions' = Append(transactions,
                              [id |-> unit[p].tx, actorId |-> req[p].actor])
    /\ ledgerEntries' = ledgerEntries \o unit[p].entries
    /\ unit' = [unit EXCEPT ![p] = NoUnit]
    /\ res' = [res EXCEPT ![p] = "ok"]
    /\ pc' = [pc EXCEPT ![p] = "done"]
    /\ idx' = [idx EXCEPT ![p] = 0]
    /\ account' = [account EXCEPT ![p] = 0]
    /\ UNCHANGED <<balance, nextId, req, pre, rd, reg>>

\* Lines 113-118 and the finally: the unit's rows become the committed rows.
\* The route passes the authenticated user as data.actorId.
Commit(p) ==
    /\ pc[p] = "commit"
    /\ transactions' = Append(transactions,
                              [id |-> unit[p].tx, actorId |-> req[p].actor])
    /\ ledgerEntries' = ledgerEntries \o unit[p].entries
    /\ balance' = [a \in Existing |->
                     IF a \in DOMAIN unit[p].writes THEN unit[p].writes[a]
                     ELSE balance[a]]
    /\ unit' = [unit EXCEPT ![p] = NoUnit]
    /\ res' = [res EXCEPT ![p] = "ok"]
    /\ pc' = [pc EXCEPT ![p] = "done"]
    /\ idx' = [idx EXCEPT ![p] = 0]
    /\ account' = [account EXCEPT ![p] = 0]
    /\ UNCHANGED <<nextId, req, pre, rd, reg>>

\* The error path without the rollback: the unit's ledger entries and balance
\* writes stay behind.
RollbackKeepsRows(p, error) ==
    /\ ledgerEntries' = ledgerEntries \o unit[p].entries
    /\ balance' = [a \in Existing |->
                     IF a \in DOMAIN unit[p].writes THEN unit[p].writes[a]
                     ELSE balance[a]]
    /\ unit' = [unit EXCEPT ![p] = NoUnit]
    /\ res' = [res EXCEPT ![p] = error]
    /\ pc' = [pc EXCEPT ![p] = "done"]
    /\ idx' = [idx EXCEPT ![p] = 0]
    /\ account' = [account EXCEPT ![p] = 0]
    /\ UNCHANGED <<transactions, nextId, req, pre, rd, reg>>

\* Lines 119-124: the error path. rollbackTransaction drops the unit's rows,
\* the error is rethrown.
Rollback(p, error) ==
    /\ unit' = [unit EXCEPT ![p] = NoUnit]
    /\ res' = [res EXCEPT ![p] = error]
    /\ pc' = [pc EXCEPT ![p] = "done"]
    /\ idx' = [idx EXCEPT ![p] = 0]
    /\ account' = [account EXCEPT ![p] = 0]
    /\ UNCHANGED <<balance, transactions, ledgerEntries, nextId, req, pre, rd, reg>>

\* Any statement of the unit (lines 91, 101, 104, 109, 113) may throw.
StorageFailure(p) ==
    /\ pc[p] \in {"saveTx", "saveEntry", "findAccount", "saveAccount", "commit"}
    /\ Rollback(p, "StorageError")

\* The row p's UPDATE waits for, if it waits.
WaitsFor(p) ==
    IF pc[p] = "saveAccount"
       /\ LockedByOther(p, req[p].entries[idx[p]].accountId)
    THEN {q \in Procs \ {p} :
            req[p].entries[idx[p]].accountId \in DOMAIN unit[q].writes}
    ELSE {}

\* DeadlockAbort on a store that detects no deadlock: the two units wait on.
DeadlockUndetected(p) ==
    /\ \E q \in WaitsFor(p) : p \in WaitsFor(q)
    /\ UNCHANGED vars

\* Two units each waiting for a row of the other: the store's deadlock
\* detector fails the UPDATE of one of them, which then takes the error path.
DeadlockAbort(p) ==
    /\ \E q \in WaitsFor(p) : p \in WaitsFor(q)
    /\ Rollback(p, "Deadlock")

\* ---------------------------------------------------------------- reads
\* The requests of the read specification: a deposit and a three-entry split
\* on u1's accounts, and a deposit on u2's accounts.
ReadWorkload ==
    {<<Entry("L", -1), Entry("A", 1)>>,
     <<Entry("A", 2), Entry("L", -1), Entry("E", -1)>>,
     <<Entry("D", -1), Entry("C", 1)>>}

\* The requests of the audit specification: one unit deposited from the
\* LIABILITY to the ASSET account of u1, either entry first.
AuditWorkload ==
    {<<Entry("L", -1), Entry("A", 1)>>, <<Entry("A", 1), Entry("L", -1)>>}

\* The requests of the fair specification: each task deposits one unit, the
\* two tasks naming the two accounts in opposite orders.
LiveWorkload ==
    [p \in Procs |-> IF p = "p1" THEN <<Entry("L", -1), Entry("A", 1)>>
                                 ELSE <<Entry("A", 1), Entry("L", -1)>>]

\* The filters of findAll; accountId "none", page 0 and limit 0 stand for an
\* absent field.
Filters ==
    [accountId : {"none", "A", "C", "X"}, page : {0, 2}, limit : {0, 1}]

\* relations: ['ledger_entries', ...]: the committed ledger entries of the
\* transaction with this id.
LedgerEntriesOf(id) ==
    SelectSeq(ledgerEntries, LAMBDA e : e.transactionId = id)

\* created_at of a transaction row: the clock when the row was made. The
\* model's ids count the rows in the order they are made, so the id orders
\* the rows as the clock does.
CreatedAt(row) == row.id

RECURSIVE OrderByCreatedAtDesc(_)
\* orderBy('transaction.createdAt', 'DESC')
OrderByCreatedAtDesc(rows) ==
    IF rows = {} THEN <<>>
    ELSE LET newest == CHOOSE r \in rows :
                          \A o \in rows : CreatedAt(o) <= CreatedAt(r) IN
         <<newest>> \o OrderByCreatedAtDesc(rows \ {newest})

\* skip(skip).take(limit) on an ordered result.
SkipTake(rows, skip, limit) ==
    SubSeq(rows, skip + 1, IF skip + limit < Len(rows) THEN skip + limit
                           ELSE Len(rows))

\* The first state of a read-side call: position, what it remembers of the
\* call before it, and the committed store it is made on.
ReaderCall(op, next) ==
    [ReaderIdle EXCEPT !.pc = next, !.op = op,
                       !.fresh = (rd.pc = "idle"), !.pre = Store]

\* findById without the ownership check of lines 137-144.
FindByIdAnyOwner(id, authenticatedUserId) ==
    /\ rd.pc \in {"idle", "done"}
    /\ LET call == [ReaderCall("findById", "done") EXCEPT
                       !.id = id, !.actor = authenticatedUserId]
           entries == LedgerEntriesOf(id) IN
        rd' = IF \A t \in 1..Len(transactions) : transactions[t].id # id
              THEN [call EXCEPT !.error = "TransactionNotFound"]
              ELSE [call EXCEPT !.tx = [id |-> id, entries |-> entries]]
    /\ UNCHANGED <<balance, transactions, ledgerEntries, nextId, pc, req, res,
                   idx, account, unit, pre, reg>>

\* findById, lines 127-147: one query loads the transaction with its ledger
\* entries and their accounts; the checks run on its result.
FindById(id, authenticatedUserId) ==
    /\ rd.pc \in {"idle", "done"}
    /\ LET call == [ReaderCall("findById", "done") EXCEPT
                       !.id = id, !.actor = authenticatedUserId]
           entries == LedgerEntriesOf(id)
           unauthorizedAccounts ==
               {i \in 1..Len(entries) :
                   AccountStore[entries[i].accountId].ownerId
                      # authenticatedUserId} IN
        rd' = IF \A t \in 1..Len(transactions) : transactions[t].id # id
              THEN [call EXCEPT !.error = "TransactionNotFound"]
              ELSE IF unauthorizedAccounts # {}
              THEN [call EXCEPT !.error = "Forbidden"]
              ELSE [call EXCEPT !.tx = [id |-> id, entries |-> entries]]
    /\ UNCHANGED <<balance, transactions, ledgerEntries, nextId, pc, req, res,
                   idx, account, unit, pre, reg>>

\* Selected without the where clause of line 165.
SelectedAnyOwner(accountId, authenticatedUserId) ==
    {transactions[t] : t \in
        {u \in 1..Len(transactions) :
            \E i \in 1..Len(ledgerEntries) :
               /\ ledgerEntries[i].transactionId = transactions[u].id
               /\ accountId # "none" =>
                     ledgerEntries[i].accountId = accountId}}

\* The rows the query of lines 161-190 selects: transactions joined to a
\* ledger entry on an account of the user and, if asked, on the given account.
Selected(accountId, authenticatedUserId) ==
    {transactions[t] : t \in
        {u \in 1..Len(transactions) :
            \E i \in 1..Len(ledgerEntries) :
               /\ ledgerEntries[i].transactionId = transactions[u].id
               /\ AccountStore[ledgerEntries[i].accountId].ownerId
                     = authenticatedUserId
               /\ accountId # "none" =>
                     ledgerEntries[i].accountId = accountId}}

\* findAll, lines 149-201. The account of the filter is read first; account
\* rows never change owner, so the two reads are taken as one step.
FindAll(filters, authenticatedUserId) ==
    /\ rd.pc \in {"idle", "done"}
    /\ LET page == IF filters.page = 0 THEN 1 ELSE filters.page
           limit == IF filters.limit = 0 THEN 10
                    ELSE IF filters.limit < 100 THEN filters.limit ELSE 100
           skip == (page - 1) * limit
           call == [ReaderCall("findAll", "done") EXCEPT
                       !.accountId = filters.accountId, !.page = page,
                       !.limit = limit, !.actor = authenticatedUserId]
           rows == Selected(filters.accountId, authenticatedUserId) IN
        rd' = IF filters.accountId # "none" /\ filters.accountId \notin Existing
              THEN [call EXCEPT !.error = "AccountNotFound"]
              ELSE IF /\ filters.accountId # "none"
                      /\ AccountStore[filters.accountId].ownerId
                            # authenticatedUserId
              THEN [call EXCEPT !.error = "Forbidden"]
              ELSE [call EXCEPT
                       !.list = SkipTake(OrderByCreatedAtDesc(rows), skip, limit),
                       !.count = Cardinality(rows)]
    /\ UNCHANGED <<balance, transactions, ledgerEntries, nextId, pc, req, res,
                   idx, account, unit, pre, reg>>

\* recalculateBalance is called for an account; the call remembers whether it
\* repeats the call before it, and what that call returned.
RecalculateBalance(accountId) ==
    /\ rd.pc \in {"idle", "done"}
    /\ LET repeat == /\ rd.pc = "done"
                     /\ rd.op = "recalculateBalance"
                     /\ rd.accountId = accountId IN
        rd' = [ReaderCall("recalculateBalance", "recalcFind") EXCEPT
                  !.accountId = accountId, !.repeat = repeat,
                  !.prevTotal = IF repeat THEN rd.total ELSE 0]
    /\ UNCHANGED <<balance, transactions, ledgerEntries, nextId, pc, req, res,
                   idx, account, unit, pre, reg>>

\* getBalanceRealTime is called for an account.
GetBalanceRealTime(id) ==
    /\ rd.pc \in {"idle", "done"}
    /\ rd' = [ReaderCall("getBalanceRealTime", "findAccount") EXCEPT
                 !.accountId = id]
    /\ UNCHANGED <<balance, transactions, ledgerEntries, nextId, pc, req, res,
                   idx, account, unit, pre, reg>>

\* getBalanceRealTime, line 127: findById reads the committed account row or
\* throws 'Account not found'.
RealTimeFindById ==
    /\ rd.pc = "findAccount"
    /\ rd' = IF rd.accountId \notin Existing
             THEN [rd EXCEPT !.error = "AccountNotFound", !.pc = "done"]
             ELSE [rd EXCEPT !.cached = balance[rd.accountId],
                             !.pc = "recalcFind"]
    /\ UNCHANGED <<balance, transactions, ledgerEntries, nextId, pc, req, res,
                   idx, account, unit, pre, reg>>

\* RecalcFind reading the ledger entries of every account.
RecalcFindEveryAccount ==
    /\ rd.pc = "recalcFind"
    /\ rd' = [rd EXCEPT !.total = SumAmounts(ledgerEntries),
                        !.pc = "recalcUpdate"]
    /\ UNCHANGED <<balance, transactions, ledgerEntries, nextId, pc, req, res,
                   idx, account, unit, pre, reg>>

\* recalculateBalance, lines 106-113: the committed ledger entries of the
\* account are read, in whatever order the store returns them (the find has
\* no order), and their amounts are added up in that order.
RecalcFind ==
    /\ rd.pc = "recalcFind"
    /\ LET rows == SelectSeq(ledgerEntries,
                             LAMBDA e : e.accountId = rd.accountId) IN
        \E f \in Permutations(1..Len(rows)) :
            rd' = [rd EXCEPT
                      !.total = SumAmounts([i \in 1..Len(rows) |-> rows[f[i]]]),
                      !.pc = "recalcUpdate"]
    /\ UNCHANGED <<balance, transactions, ledgerEntries, nextId, pc, req, res,
                   idx, account, unit, pre, reg>>

\* recalculateBalance, lines 115-117, and the return of getBalanceRealTime,
\* lines 130-136: the sum is written to the account row (an UPDATE of its
\* own, which waits while a unit holds the row) and returned.
RecalcUpdate ==
    /\ rd.pc = "recalcUpdate"
    /\ \A q \in Procs : rd.accountId \notin DOMAIN unit[q].writes
    /\ balance' = [a \in Existing |->
                     IF a = rd.accountId THEN rd.total ELSE balance[a]]
    /\ rd' = [rd EXCEPT !.pc = "done",
                        !.inSync = /\ rd.op = "getBalanceRealTime"
                                   /\ rd.total = rd.cached]
    /\ UNCHANGED <<transactions, ledgerEntries, nextId, pc, req, res, idx,
                   account, unit, pre, reg>>

\* AccountService.getBalance, part_002 lines 95-103: findById reads the
\* committed account row or throws 'Account not found'; its balance is
\* returned.
GetBalance(id) ==
    /\ rd.pc \in {"idle", "done"}
    /\ LET call == [ReaderCall("getBalance", "done") EXCEPT !.accountId = id] IN
        rd' = IF id \notin Existing
              THEN [call EXCEPT !.error = "AccountNotFound"]
              ELSE [call EXCEPT !.cached = balance[id]]
    /\ UNCHANGED <<balance, transactions, ledgerEntries, nextId, pc, req, res,
                   idx, account, unit, pre, reg>>

\* AccountService.update is called for an account, with a new name.
Update(id) ==
    /\ rd.pc \in {"idle", "done"}
    /\ rd' = [ReaderCall("update", "updateFind") EXCEPT !.accountId = id]
    /\ UNCHANGED <<balance, transactions, ledgerEntries, nextId, pc, req, res,
                   idx, account, unit, pre, reg>>

\* update, part_002 line 227: findById loads the account row, balance
\* included, or throws 'Account not found'.
UpdateFind ==
    /\ rd.pc = "updateFind"
    /\ rd' = IF rd.accountId \notin Existing
             THEN [rd EXCEPT !.error = "AccountNotFound", !.pc = "done"]
             ELSE [rd EXCEPT !.cached = balance[rd.accountId],
                             !.pc = "updateSave"]
    /\ UNCHANGED <<balance, transactions, ledgerEntries, nextId, pc, req, res,
                   idx, account, unit, pre, reg>>

\* update, part_002 lines 229-235: the name is set on the loaded row and the
\* row is saved. save() writes every column in which the row it was given
\* differs from the stored one: the name, and the balance when the stored
\* balance is no longer the one loaded. The UPDATE waits while a unit holds
\* the row.
UpdateSave ==
    /\ rd.pc = "updateSave"
    /\ \A q \in Procs : rd.accountId \notin DOMAIN unit[q].writes
    /\ balance' = [balance EXCEPT ![rd.accountId] = rd.cached]
    /\ rd' = [rd EXCEPT !.pc = "done"]
    /\ UNCHANGED <<transactions, ledgerEntries, nextId, pc, req, res, idx,
                   account, unit, pre, reg>>

\* The requests of the specification of all operations: a deposit to and a
\* withdrawal from the ASSET account of u1.
OpsWorkload ==
    {<<Entry("L", -1), Entry("A", 1)>>, <<Entry("A", -1), Entry("L", 1)>>}

\* ---------------------------------------------------------------- customers
\* register() is called with an email.
Register(p, email) ==
    /\ reg.call[p].pc \in {"idle", "done"}
    /\ reg' = [reg EXCEPT !.call[p] =
                 [pc |-> "find", email |-> email, res |-> "none",
                  created |-> 0, before |-> reg.customers]]
    /\ UNCHANGED <<balance, transactions, ledgerEntries, nextId, pc, req, res,
                   idx, account, unit, pre, rd>>

\* register(), lines 19-27: findOne by email; a row found throws 'Email
\* already registered', none found goes on to hash the password.
RegisterFind(p) ==
    /\ reg.call[p].pc = "find"
    /\ reg' = IF \E i \in 1..Len(reg.customers) :
                    reg.customers[i].email = reg.call[p].email
              THEN [reg EXCEPT !.call[p].res = "EmailAlreadyRegistered",
                               !.call[p].pc = "done"]
              ELSE [reg EXCEPT !.call[p].pc = "save"]
    /\ UNCHANGED <<balance, transactions, ledgerEntries, nextId, pc, req, res,
                   idx, account, unit, pre, rd>>

\* RegisterSave on a table without the unique constraint on email.
RegisterSaveNoConstraint(p) ==
    /\ reg.call[p].pc = "save"
    /\ reg' = [reg EXCEPT
                 !.customers = Append(@, [id |-> Len(reg.customers) + 1,
                                          email |-> reg.call[p].email]),
                 !.call[p].created = Len(reg.customers) + 1,
                 !.call[p].res = "ok",
                 !.call[p].pc = "done"]
    /\ UNCHANGED <<balance, transactions, ledgerEntries, nextId, pc, req, res,
                   idx, account, unit, pre, rd>>

\* register(), lines 29-38: the customer row is inserted. Column email is
\* unique: the insert of an email the table already holds fails and adds no
\* row, and register() rethrows the store's error.
RegisterSave(p) ==
    /\ reg.call[p].pc = "save"
    /\ reg' = IF \E i \in 1..Len(reg.customers) :
                    reg.customers[i].email = reg.call[p].email
              THEN [reg EXCEPT !.call[p].res = "DuplicateKey",
                               !.call[p].pc = "done"]
              ELSE [reg EXCEPT
                      !.customers = Append(@, [id |-> Len(reg.customers) + 1,
                                               email |-> reg.call[p].email]),
                      !.call[p].created = Len(reg.customers) + 1,
                      !.call[p].res = "ok",
                      !.call[p].pc = "done"]
    /\ UNCHANGED <<balance, transactions, ledgerEntries, nextId, pc, req, res,
                   idx, account, unit, pre, rd>>

\* ---------------------------------------------------------------- specifications
Step(p) ==
    \/ Find(p)
    \/ Begin(p)
    \/ SaveTransaction(p)
    \/ SaveEntry(p)
    \/ FindAccount(p)
    \/ SaveAccount(p)
    \/ Commit(p)

\* Concurrent calls, one task per call.
Next ==
    \/ \E p \in Procs : /\ pc[p] \in {"idle", "done"}
                       /\ \E w \in Workload : Create(p, w, "u1")
    \/ \E p \in Procs : Step(p)
    \/ \E p \in Procs : StorageFailure(p)
    \/ \E p \in Procs : DeadlockAbort(p)

Spec == Init /\ [][Next]_vars

\* Calls made one at a time: each returns before the next is made.
NextSeq ==
    \/ /\ pc["p1"] \in {"idle", "done"}
       /\ \E w \in SeqWorkload : Create("p1", w, "u1")
    \/ Step("p1")
    \/ StorageFailure("p1")

SpecSeq == Init /\ [][NextSeq]_vars

\* One call on the new store, over every request.
NextOne ==
    \/ /\ pc["p1"] = "idle"
       /\ \E w \in AllEntries, u \in Users : Create("p1", w, u)
    \/ Step("p1")

SpecOne == Init /\ [][NextOne]_vars

\* Calls made one at a time by either user, then reads of the transactions.
NextRead ==
    \/ /\ pc["p1"] \in {"idle", "done"}
       /\ rd.pc = "idle"
       /\ \E w \in ReadWorkload, u \in Users : Create("p1", w, u)
    \/ Step("p1")
    \/ /\ pc["p1"] \in {"idle", "done"}
       /\ \E id \in 1..MaxTx, u \in Users : FindById(id, u)
    \/ /\ pc["p1"] \in {"idle", "done"}
       /\ \E f \in Filters, u \in Users : FindAll(f, u)

SpecRead == Init /\ [][NextRead]_vars

\* Concurrent calls and, once they have all returned, recomputations of the
\* balances they touched.
NextAudit ==
    \/ \E p \in Procs : /\ pc[p] \in {"idle", "done"}
                       /\ rd.pc = "idle"
                       /\ \E w \in AuditWorkload : Create(p, w, "u1")
    \/ \E p \in Procs : Step(p)
    \/ \E p \in Procs : DeadlockAbort(p)
    \/ /\ \A p \in Procs : pc[p] \in {"idle", "done"}
       /\ \E a \in {"A", "L", "X"} : RecalculateBalance(a)
    \/ /\ \A p \in Procs : pc[p] \in {"idle", "done"}
       /\ \E a \in {"A", "L", "X"} : GetBalanceRealTime(a)
    \/ RealTimeFindById
    \/ RecalcFind
    \/ RecalcUpdate

SpecAudit == Init /\ [][NextAudit]_vars

\* Calls made one at a time, storage failures included, and a read made at
\* any point of them.
NextWatch ==
    \/ /\ pc["p1"] \in {"idle", "done"}
       /\ rd.pc = "idle"
       /\ \E w \in ReadWorkload : Create("p1", w, "u1")
    \/ rd.pc = "idle" /\ Step("p1")
    \/ rd.pc = "idle" /\ StorageFailure("p1")
    \/ rd.pc = "idle" /\ \E id \in 1..MaxTx : FindById(id, "u1")
    \/ /\ rd.pc = "idle"
       /\ FindAll([accountId |-> "none", page |-> 0, limit |-> 0], "u1")
    \/ rd.pc = "idle" /\ \E a \in {"A", "L", "X"} : GetBalance(a)

SpecWatch == Init /\ [][NextWatch]_vars

\* Calls made one at a time, and every other operation on the ASSET account
\* of u1 taking its steps among theirs.
NextOps ==
    \/ /\ pc["p1"] \in {"idle", "done"}
       /\ rd.pc # "done"
       /\ \E w \in OpsWorkload : Create("p1", w, "u1")
    \/ rd.pc # "done" /\ Step("p1")
    \/ rd.pc # "done" /\ StorageFailure("p1")
    \/ \E id \in 1..MaxTx : FindById(id, "u1")
    \/ FindAll([accountId |-> "none", page |-> 0, limit |-> 0], "u1")
    \/ GetBalance("A")
    \/ RecalculateBalance("A")
    \/ GetBalanceRealTime("A")
    \/ Update("A")
    \/ RealTimeFindById
    \/ RecalcFind
    \/ RecalcUpdate
    \/ UpdateFind
    \/ UpdateSave

SpecOps == Init /\ [][NextOps]_vars

\* Concurrent register calls, one task per call.
NextRegister ==
    \/ \E p \in Procs, email \in Emails : Register(p, email)
    \/ \E p \in Procs : RegisterFind(p)
    \/ \E p \in Procs : RegisterSave(p)

SpecRegister == Init /\ [][NextRegister]_vars

\* Concurrent calls under the scheduling the runtime and the store give: the
\* event loop runs the continuation of every await whose statement has
\* completed, the store completes every statement that waits for no row, and
\* its deadlock detector fails one of two statements waiting for each other.
\* Storage failures may happen and need not.
NextLive ==
    \/ \E p \in Procs : /\ pc[p] \in {"idle", "done"}
                       /\ Create(p, LiveWorkload[p], "u1")
    \/ \E p \in Procs : Step(p)
    \/ \E p \in Procs : StorageFailure(p)
    \/ \E p \in Procs : DeadlockAbort(p)

SpecLive ==
    /\ Init
    /\ [][NextLive]_vars
    /\ \A p \in Procs : WF_vars(Step(p))
    /\ \A p \in Procs : WF_vars(DeadlockAbort(p))

\* ---------------------------------------------------------------- properties
\* The committed ledger entries of transaction id, in insert order.
EntriesOf(id) == SelectSeq(ledgerEntries, LAMBDA e : e.transactionId = id)

\* The sum of the committed ledger entries on account a.
RECURSIVE SumFor(_, _)
SumFor(entries, a) ==
    IF entries = <<>> THEN 0
    ELSE (IF entries[1].accountId = a THEN entries[1].amount ELSE 0)
         + SumFor(Tail(entries), a)

\* The structural rules of the specification's EntryValidator, as a predicate.
WellFormed(entries) ==
    /\ Len(entries) >= 2
    /\ \A i \in 1..Len(entries) : entries[i].amount # 0
    /\ SumAmounts(entries) = 0

ValidationErrors == {"InvalidEntryCount", "ZeroAmountEntry", "UnbalancedTransaction"}

Returned(p) == pc[p] = "done"

\* C1: every committed transaction has at least two ledger entries, none of
\* amount 0, and amounts summing to 0; a call whose entries break one of the
\* three rules returns a validation error and leaves the store as it was.
C1_CommittedBalanced ==
    /\ \A t \in 1..Len(transactions) : WellFormed(EntriesOf(transactions[t].id))
    /\ \A p \in Procs :
         (Returned(p) /\ ~WellFormed(req[p].entries)) =>
            (res[p] \in ValidationErrors /\ Store = pre[p])

\* C1 witness: two transactions are committed, one of them of three entries,
\* and a later call with a zero-amount entry has been rejected.
C1_Witness ==
    /\ Len(transactions) >= 2
    /\ Len(ledgerEntries) >= 5
    /\ Returned("p1")
    /\ res["p1"] = "ZeroAmountEntry"

\* C4: with calls made one at a time and accounts created with balance 0,
\* whenever no call is in flight every account's balance is the sum of the
\* committed ledger entries on that account.
C4_BalanceIsLedgerSum ==
    (\A p \in Procs : pc[p] \in {"idle", "done"}) =>
        \A a \in Existing : balance[a] = SumFor(ledgerEntries, a)

\* C4 witness: three transactions are committed, two of them of three entries,
\* and the ASSET account holds 1 after credits of 2 and 1 and a debit of 2.
C4_Witness ==
    /\ Len(transactions) = 3
    /\ Len(ledgerEntries) = 8
    /\ balance["A"] = 1
    /\ balance["E"] = 0
    /\ Returned("p1")

\* C5: a call that returns a storage error leaves the transactions, the
\* ledger entries and every balance exactly as they were when it was made.
C5_FailureRollsBack ==
    \A p \in Procs :
        (Returned(p) /\ res[p] = "StorageError") => Store = pre[p]

\* C5 witness: a call failed after its unit had drawn a transaction id, on a
\* store that already holds a committed transaction.
C5_Witness ==
    /\ Returned("p1")
    /\ res["p1"] = "StorageError"
    /\ Len(transactions) >= 1
    /\ nextId > transactions[Len(transactions)].id + 1

AllReturned == \A p \in Procs : pc[p] \in {"idle", "done"}

\* C2: once every concurrent call has returned, each account's balance is its
\* initial balance (0) plus the amounts of all committed ledger entries on it:
\* no committed balance update was overwritten by another.
C2_NoLostUpdate ==
    AllReturned => \A a \in Existing : balance[a] = SumFor(ledgerEntries, a)

\* C3: the committed balance of every ASSET account is >= 0 in every state,
\* whatever the interleaving of the calls.
C3_AssetNeverNegative ==
    \A a \in Existing : AccountStore[a].type = "ASSET" => balance[a] >= 0

\* C6: a call with an entry that would take an ASSET account's current
\* committed balance below 0 never commits: the step that ends a call with
\* success is never taken from a store in which one of its entries does so.
C6_OverdraftNeverCommits ==
    [][\A p \in Procs :
         (pc[p] = "commit" /\ pc'[p] = "done" /\ res'[p] = "ok") =>
            \A i \in 1..Len(req[p].entries) :
               AccountStore[req[p].entries[i].accountId].type = "ASSET" =>
                  balance[req[p].entries[i].accountId]
                     + req[p].entries[i].amount >= 0]_vars

AllExist(entries) ==
    \A i \in 1..Len(entries) : entries[i].accountId \in Existing

SomeForeign(entries, actor) ==
    \E i \in 1..Len(entries) :
        /\ entries[i].accountId \in Existing
        /\ AccountStore[entries[i].accountId].ownerId # actor

\* C7: a returned call whose entries are well formed, name only existing
\* accounts and include an account of another owner has failed with Forbidden
\* and left the store as it was.
C7_ForeignAccountForbidden ==
    \A p \in Procs :
        (/\ Returned(p)
         /\ WellFormed(req[p].entries)
         /\ AllExist(req[p].entries)
         /\ SomeForeign(req[p].entries, req[p].actor)) =>
            (res[p] = "Forbidden" /\ Store = pre[p])

\* The EntryValidator of the specification: count, then zero, then balance.
ValidateInSpecOrder(entries) ==
    IF Len(entries) < 2 THEN "InvalidEntryCount"
    ELSE IF \E i \in 1..Len(entries) : entries[i].amount = 0
         THEN "ZeroAmountEntry"
    ELSE IF SumAmounts(entries) # 0 THEN "UnbalancedTransaction"
    ELSE "ok"

\* C8: a returned call whose entries break a structural rule carries the error
\* of the first rule broken in the order count, zero, balance; a call whose
\* entries break none carries no validation error.
C8_ValidationOrder ==
    \A p \in Procs :
        Returned(p) =>
            IF ValidateInSpecOrder(req[p].entries) = "ok"
            THEN res[p] \notin ValidationErrors
            ELSE res[p] = ValidateInSpecOrder(req[p].entries)

\* C9: a returned call with well-formed entries has failed with
\* AccountNotFound exactly when one of the ids it names is the id of no
\* account; naming one existing account twice is no such failure.
C9_NotFoundIffMissing ==
    \A p \in Procs :
        (Returned(p) /\ WellFormed(req[p].entries)) =>
            (res[p] = "AccountNotFound" <=> ~AllExist(req[p].entries))

\* The precedence of the specification's AuthorizationGuard over the accounts
\* the entries name.
AuthorizeInSpecOrder(entries, actor) ==
    LET accounts == {entries[i].accountId : i \in 1..Len(entries)} IN
    IF ~AllExist(entries) THEN "AccountNotFound"
    ELSE IF SomeForeign(entries, actor) THEN "Forbidden"
    ELSE IF Cardinality({AccountStore[a].currency : a \in accounts}) > 1
         THEN "CurrencyMismatch"
    ELSE "ok"

AuthorizationErrors == {"AccountNotFound", "Forbidden", "CurrencyMismatch"}

\* C10: a returned call with well-formed entries carries AccountNotFound if
\* an id is missing, otherwise Forbidden if an account is another owner's,
\* otherwise CurrencyMismatch if the accounts have several currencies, and
\* InsufficientBalance only if none of the three applies.
C10_AuthorizationPrecedence ==
    \A p \in Procs :
        (Returned(p) /\ WellFormed(req[p].entries)) =>
            IF AuthorizeInSpecOrder(req[p].entries, req[p].actor) = "ok"
            THEN res[p] \notin AuthorizationErrors
            ELSE res[p] = AuthorizeInSpecOrder(req[p].entries, req[p].actor)

\* The currencies of the existing accounts the entries name.
CurrenciesOf(entries) ==
    {AccountStore[entries[i].accountId].currency :
        i \in {j \in 1..Len(entries) : entries[j].accountId \in Existing}}

C12_NoDeadlock ==
    \A p \in Procs : \A q \in WaitsFor(p) : p \notin WaitsFor(q)

\* C13: the step that ends a call with success persists, under the call's new
\* transaction id, exactly one ledger entry per submitted entry, the i-th with
\* the account and the amount of the i-th submitted entry; the rows returned
\* (the unit's inserts) are the rows persisted.
C13_EntriesOneToOne ==
    [][\A p \in Procs :
         (pc[p] = "commit" /\ pc'[p] = "done" /\ res'[p] = "ok") =>
            LET persisted == SelectSeq(ledgerEntries',
                               LAMBDA e : e.transactionId = unit[p].tx) IN
            /\ persisted = unit[p].entries
            /\ Len(persisted) = Len(req[p].entries)
            /\ \A i \in 1..Len(persisted) :
                 /\ persisted[i].transactionId = unit[p].tx
                 /\ persisted[i].accountId = req[p].entries[i].accountId
                 /\ persisted[i].amount = req[p].entries[i].amount]_vars

\* C13 witness: a call of three entries on three accounts has committed and
\* the store holds its three rows.
C13_Witness ==
    /\ Returned("p1")
    /\ res["p1"] = "ok"
    /\ Len(req["p1"].entries) = 3
    /\ Len(EntriesOf(transactions[1].id)) = 3
    /\ Cardinality({ledgerEntries[i].accountId : i \in 1..3}) = 3

\* C14: a call that returned with success changed the balance of each account
\* it names by the amount of that account's entry and left every other
\* balance as it was when the call was made.
C14_BalancesMoveByAmount ==
    \A p \in Procs :
        (Returned(p) /\ res[p] = "ok") =>
            \A a \in Existing :
                balance[a] = pre[p].balance[a] + SumFor(req[p].entries, a)

\* C14 witness: one unit moved from the ASSET account holding 2 to the
\* LIABILITY account; the EQUITY account keeps the -1 it had.
C14_Witness ==
    /\ Returned("p1")
    /\ res["p1"] = "ok"
    /\ req["p1"].entries = <<Entry("A", -1), Entry("L", 1)>>
    /\ pre["p1"].balance["A"] = 2
    /\ balance["A"] = 1
    /\ balance["L"] = pre["p1"].balance["L"] + 1
    /\ balance["E"] = -1

\* Every entry of negative amount is on a LIABILITY or EQUITY account.
NegativeOnlyOffAsset(entries) ==
    \A i \in 1..Len(entries) :
        entries[i].amount < 0 =>
            /\ entries[i].accountId \in Existing
            /\ AccountStore[entries[i].accountId].type \in {"LIABILITY", "EQUITY"}

ReadReturned(op) == rd.pc = "done" /\ rd.op = op

\* Some committed ledger entry of transaction id is on an account whose owner
\* is not the actor.
TouchesForeign(id, actor) ==
    \E i \in 1..Len(ledgerEntries) :
        /\ ledgerEntries[i].transactionId = id
        /\ AccountStore[ledgerEntries[i].accountId].ownerId # actor

\* C16: a returned findById has failed with TransactionNotFound if no
\* committed transaction has the id, else with Forbidden if an entry of the
\* transaction is on an account of another owner, and has otherwise returned
\* the transaction with all its committed entries; what it returns touches
\* only accounts of the actor, and the store is as it was when it was called.
C16_FindById ==
    ReadReturned("findById") =>
        /\ IF \A t \in 1..Len(transactions) : transactions[t].id # rd.id
           THEN rd.error = "TransactionNotFound"
           ELSE IF TouchesForeign(rd.id, rd.actor)
           THEN rd.error = "Forbidden"
           ELSE /\ rd.error = "none"
                /\ rd.tx = [id |-> rd.id, entries |-> EntriesOf(rd.id)]
        /\ rd.error = "none" =>
              \A i \in 1..Len(rd.tx.entries) :
                 AccountStore[rd.tx.entries[i].accountId].ownerId = rd.actor
        /\ rd.error # "none" => rd.tx.entries = <<>>
        /\ Store = rd.pre

\* C16 witness: with a transaction of u2 also committed, u1 has been returned
\* a transaction of three entries.
C16_Witness ==
    /\ ReadReturned("findById")
    /\ rd.actor = "u1"
    /\ rd.error = "none"
    /\ Len(rd.tx.entries) = 3
    /\ \E t \in 1..Len(transactions) : transactions[t].actorId = "u2"

\* The position of a transaction row in commit order.
PositionOf(row) == CHOOSE t \in 1..Len(transactions) : transactions[t] = row

\* C17: a returned findAll whose filter names an existing account of another
\* owner has failed with Forbidden; one that succeeded lists only committed
\* transactions with at least one entry on an account of the actor, each
\* once, later-created ones first; the store is as it was when it was called.
C17_FindAll ==
    ReadReturned("findAll") =>
        /\ (/\ rd.accountId \in Existing
            /\ AccountStore[rd.accountId].ownerId # rd.actor) =>
               (rd.error = "Forbidden" /\ rd.list = <<>>)
        /\ rd.error = "none" =>
              /\ \A i \in 1..Len(rd.list) :
                    /\ \E t \in 1..Len(transactions) :
                          transactions[t] = rd.list[i]
                    /\ \E k \in 1..Len(ledgerEntries) :
                          /\ ledgerEntries[k].transactionId = rd.list[i].id
                          /\ AccountStore[ledgerEntries[k].accountId].ownerId
                                = rd.actor
              /\ \A i, j \in 1..Len(rd.list) :
                    i < j => PositionOf(rd.list[i]) > PositionOf(rd.list[j])
        /\ Store = rd.pre

\* C17 witness: the store holds three transactions, one of them of u2, and an
\* unfiltered findAll of u1 has returned the other two, the later one first.
C17_Witness ==
    /\ ReadReturned("findAll")
    /\ rd.actor = "u1"
    /\ rd.accountId = "none"
    /\ rd.error = "none"
    /\ Len(transactions) = 3
    /\ transactions[2].actorId = "u2"
    /\ Len(rd.list) = 2
    /\ rd.list[1] = transactions[3]
    /\ rd.list[2] = transactions[1]

\* C18: a returned recalculateBalance carries the sum of the amounts of the
\* committed ledger entries of the account, in whatever order it read them;
\* when it repeats the call before it with no commit in between, it returns
\* what that call returned and leaves the store as that call left it.
C18_RecalculateIsLedgerSum ==
    ReadReturned("recalculateBalance") =>
        /\ rd.total = SumFor(ledgerEntries, rd.accountId)
        /\ rd.repeat => (rd.total = rd.prevTotal /\ Store = rd.pre)

\* C18 witness: the ASSET account has three ledger entries of +1; a second
\* recalculateBalance in a row has returned 3, and the balance is 3.
C18_Witness ==
    /\ ReadReturned("recalculateBalance")
    /\ rd.accountId = "A"
    /\ rd.repeat
    /\ Len(SelectSeq(ledgerEntries, LAMBDA e : e.accountId = "A")) = 3
    /\ rd.total = 3
    /\ balance["A"] = 3

\* C19: recomputing is a pure read: a returned recalculateBalance or
\* getBalanceRealTime has left every account's persisted balance as it was
\* when the call was made.
C19_RecomputeIsPureRead ==
    (ReadReturned("recalculateBalance") \/ ReadReturned("getBalanceRealTime"))
        => balance = rd.pre.balance

\* C20: a returned getBalanceRealTime reports the sum of the account's ledger
\* entries, the balance persisted when it was called, and inSync as their
\* equality; called with no submission in flight and before any recomputation
\* has written a balance, it reports the two equal and inSync TRUE.
C20_RealTimeReportInSync ==
    (ReadReturned("getBalanceRealTime") /\ rd.error = "none") =>
        /\ rd.total = SumFor(ledgerEntries, rd.accountId)
        /\ rd.cached = rd.pre.balance[rd.accountId]
        /\ rd.inSync = (rd.total = rd.cached)
        /\ rd.fresh => (rd.total = rd.cached /\ rd.inSync)

\* The last transaction committed before p's call carried p's entries, for
\* p's actor.
PreviousSame(p) ==
    /\ Len(pre[p].transactions) >= 1
    /\ LET last == pre[p].transactions[Len(pre[p].transactions)]
           rows == SelectSeq(pre[p].ledgerEntries,
                             LAMBDA e : e.transactionId = last.id) IN
        /\ last.actorId = req[p].actor
        /\ Len(rows) = Len(req[p].entries)
        /\ \A i \in 1..Len(rows) :
             /\ rows[i].accountId = req[p].entries[i].accountId
             /\ rows[i].amount = req[p].entries[i].amount

\* C21: committed transactions have distinct ids; a call that succeeds with
\* the entries the call before it committed adds a second transaction with a
\* new id and its own ledger entries, and applies the amounts to the balances
\* once more.
C21_ResubmitCommitsAgain ==
    /\ \A i, j \in 1..Len(transactions) :
         i # j => transactions[i].id # transactions[j].id
    /\ \A p \in Procs :
         (Returned(p) /\ res[p] = "ok" /\ PreviousSame(p)) =>
            LET new == transactions[Len(transactions)] IN
            /\ Len(transactions) = Len(pre[p].transactions) + 1
            /\ \A t \in 1..Len(pre[p].transactions) :
                 pre[p].transactions[t].id # new.id
            /\ Len(EntriesOf(new.id)) = Len(req[p].entries)
            /\ Len(ledgerEntries) =
                  Len(pre[p].ledgerEntries) + Len(req[p].entries)
            /\ \A a \in Existing :
                 balance[a] = pre[p].balance[a] + SumFor(req[p].entries, a)

\* C21 witness: the deposit of one unit has been committed twice in a row;
\* the store holds two transactions and four ledger entries, and the ASSET
\* account holds 2.
C21_Witness ==
    /\ Returned("p1")
    /\ res["p1"] = "ok"
    /\ PreviousSame("p1")
    /\ req["p1"].entries = <<Entry("L", -1), Entry("A", 1)>>
    /\ Len(transactions) = 2
    /\ Len(ledgerEntries) = 4
    /\ balance["A"] = 2

\* The call has opened its unit of work and not yet ended it.
UnitOpen(p) ==
    pc[p] \in {"saveTx", "saveEntry", "findAccount", "saveAccount", "commit"}

\* C22: with calls made one at a time, a call reads the account store only
\* with well-formed entries, and holds an open unit of work or an unwritten
\* row only after its entries also passed resolution, ownership, currency and
\* floor; a call rejected by a check has opened no unit and written nothing,
\* and a floor rejection comes only after the three authorization checks
\* passed.
C22_StagesInOrder ==
    \A p \in Procs :
        /\ pc[p] \in {"find", "begin"} => WellFormed(req[p].entries)
        /\ (pc[p] = "begin" \/ UnitOpen(p) \/ unit[p] # NoUnit) =>
              /\ WellFormed(req[p].entries)
              /\ Authorize(req[p].entries, req[p].actor, balance) = "ok"
        /\ (Returned(p) /\ ~WellFormed(req[p].entries)) =>
              res[p] \in ValidationErrors
        /\ (Returned(p) /\ res[p] \in ValidationErrors \cup AuthorizationErrors
                                      \cup {"InsufficientBalance"}) =>
              (unit[p] = NoUnit /\ Store = pre[p])
        /\ (Returned(p) /\ res[p] = "InsufficientBalance") =>
              /\ WellFormed(req[p].entries)
              /\ AllExist(req[p].entries)
              /\ ~SomeForeign(req[p].entries, req[p].actor)
              /\ Cardinality(CurrenciesOf(req[p].entries)) = 1

\* C22 witness: on a store holding a committed transaction, a call is in its
\* unit of work with a ledger entry inserted and a balance written.
C22_Witness ==
    /\ pc["p1"] = "saveEntry"
    /\ Len(unit["p1"].entries) = 1
    /\ DOMAIN unit["p1"].writes # {}
    /\ Len(transactions) >= 1

RECURSIVE SumBalances(_, _)
\* The sum of the balances bal of the accounts in S.
SumBalances(S, bal) ==
    IF S = {} THEN 0
    ELSE LET a == CHOOSE x \in S : TRUE IN
         bal[a] + SumBalances(S \ {a}, bal)

\* C27: with calls made one at a time, the balances of all accounts add up
\* to what they added up to before the first call (0), and a call that
\* committed left their sum as it was when the call was made.
C27_Conservation ==
    /\ SumBalances(Existing, balance) = 0
    /\ \A p \in Procs :
         (Returned(p) /\ res[p] = "ok") =>
            SumBalances(Existing, balance) = SumBalances(Existing, pre[p].balance)

\* C27 witness: three transactions are committed and have moved four units
\* to the ASSET account, three from the LIABILITY and one from the EQUITY
\* account.
C27_Witness ==
    /\ Len(transactions) = 3
    /\ balance["A"] = 4
    /\ balance["L"] = -3
    /\ balance["E"] = -1

\* Lines 70-75: what the error of the failed pre-check reports, the account,
\* its current balance and the amount required, for the first entry failing.
InsufficientDetail(entries, bal) ==
    LET failing == {i \in 1..Len(entries) :
                      /\ entries[i].accountId \in Existing
                      /\ AccountStore[entries[i].accountId].type = "ASSET"
                      /\ bal[entries[i].accountId] + entries[i].amount < 0}
        first == CHOOSE i \in failing : \A j \in failing : i <= j IN
    [account |-> entries[first].accountId,
     current |-> bal[entries[first].accountId],
     required |-> 0 - entries[first].amount]

\* The outcome of create() for a request on store balances bal: the error or
\* "ok", and the content of an insufficient-balance error.
Outcome(entries, authenticatedUserId, bal) ==
    LET kind == IF Validate(entries) # "ok" THEN Validate(entries)
                ELSE Authorize(entries, authenticatedUserId, bal) IN
    [kind |-> kind,
     detail |-> IF kind = "InsufficientBalance"
                THEN InsufficientDetail(entries, bal)
                ELSE [account |-> "none", current |-> 0, required |-> 0]]

\* The balance functions that agree with bal on the accounts of the user and
\* give each account of another owner any of three balances.
OthersVaried(authenticatedUserId, bal) ==
    LET others == {a \in Existing :
                     AccountStore[a].ownerId # authenticatedUserId} IN
    {[a \in Existing |-> IF a \in others THEN f[a] ELSE bal[a]] :
        f \in [others -> {-1, 0, 2}]}

\* C29: the outcome of a call that met no storage failure is the outcome the
\* same request has on every store that differs from the one it was made on
\* only in balances of accounts of other owners.
C29_OutcomeIgnoresOthersBalances ==
    \A p \in Procs :
        (Returned(p) /\ res[p] # "StorageError") =>
            \A b \in OthersVaried(req[p].actor, pre[p].balance) :
                /\ Outcome(req[p].entries, req[p].actor, b).kind = res[p]
                /\ Outcome(req[p].entries, req[p].actor, b)
                      = Outcome(req[p].entries, req[p].actor, pre[p].balance)

\* C29 witness: a call debiting the ASSET account of another owner, which
\* holds 0, has been refused as Forbidden.
C29_Witness ==
    /\ Returned("p1")
    /\ res["p1"] = "Forbidden"
    /\ req["p1"].entries = <<Entry("C", -1), Entry("A", 1)>>
    /\ pre["p1"].balance["C"] = 0
    /\ Len(transactions) >= 1

\* C23: with a submission anywhere in its unit of work, or failed in it, the
\* committed rows a reader can see are whole: every transaction has all its
\* ledger entries, every ledger entry has its transaction, and every balance
\* is the sum of the ledger entries on its account; what findById, findAll
\* and getBalance return is taken from those rows.
C23_ReadersSeeWholeUnits ==
    /\ \A t \in 1..Len(transactions) : WellFormed(EntriesOf(transactions[t].id))
    /\ \A i \in 1..Len(ledgerEntries) :
         \E t \in 1..Len(transactions) :
            transactions[t].id = ledgerEntries[i].transactionId
    /\ \A a \in Existing : balance[a] = SumFor(ledgerEntries, a)
    /\ (ReadReturned("findById") /\ rd.error = "none") =>
          (WellFormed(rd.tx.entries) /\ rd.tx.entries = EntriesOf(rd.id))
    /\ (ReadReturned("findAll") /\ rd.error = "none") =>
          \A i \in 1..Len(rd.list) :
             /\ \E t \in 1..Len(transactions) : transactions[t] = rd.list[i]
             /\ WellFormed(EntriesOf(rd.list[i].id))
    /\ (ReadReturned("getBalance") /\ rd.error = "none") =>
          rd.cached = SumFor(ledgerEntries, rd.accountId)

\* C23 witness: getBalance has returned 1 for the ASSET account while a
\* submission's unit of work holds an uncommitted ledger entry and has
\* written 2 to that account.
C23_Witness ==
    /\ ReadReturned("getBalance")
    /\ rd.accountId = "A"
    /\ rd.cached = 1
    /\ UnitOpen("p1")
    /\ unit["p1"].entries # <<>>
    /\ "A" \in DOMAIN unit["p1"].writes
    /\ unit["p1"].writes["A"] = 2

\* C24: a balance changes only in the step that commits a submission or in
\* the step in which a recomputation writes its sum; no step of update,
\* getBalance, findById or findAll changes one.
C24_BalanceChangesOnlyByCommitOrRepair ==
    [][balance' # balance =>
          \/ \E p \in Procs :
                pc[p] = "commit" /\ pc'[p] = "done" /\ res'[p] = "ok"
          \/ rd.pc = "recalcUpdate" /\ rd'.pc = "done"]_vars

\* C25: no step of any operation changes or removes a committed transaction
\* or a committed ledger entry: after every step the committed rows of before
\* are still there, unchanged and in place, followed by the rows the step
\* added.
C25_HistoryAppendOnly ==
    [][/\ Len(transactions') >= Len(transactions)
       /\ SubSeq(transactions', 1, Len(transactions)) = transactions
       /\ Len(ledgerEntries') >= Len(ledgerEntries)
       /\ SubSeq(ledgerEntries', 1, Len(ledgerEntries)) = ledgerEntries]_vars

\* C25 witness: with three transactions and their six ledger entries
\* committed, a recomputation and then an update of the ASSET account have
\* returned.
C25_Witness ==
    /\ ReadReturned("update")
    /\ ~rd.fresh
    /\ Len(transactions) = 3
    /\ Len(ledgerEntries) = 6
    /\ \A t \in 1..3 : Len(EntriesOf(transactions[t].id)) = 2

\* C28: when a recalculateBalance, the first operation other than submissions
\* on the store, has returned and no submission is in flight, the balance of
\* its account is the sum of the committed ledger entries on that account,
\* also when a submission committed between its read and its write.
C28_RecomputeRaceKeepsSum ==
    (/\ ReadReturned("recalculateBalance")
     /\ rd.fresh
     /\ \A p \in Procs : pc[p] \in {"idle", "done"}) =>
        balance[rd.accountId] = SumFor(ledgerEntries, rd.accountId)

\* Some row of the customers table rows has the email.
Registered(rows, email) == \E i \in 1..Len(rows) : rows[i].email = email

\* C26: no two customers have the same email; a returned register call for
\* an email registered when it was made has failed and created no customer;
\* whatever the interleaving, a call that failed created none and its email
\* is registered, and a call that succeeded created the one customer with
\* its email.
C26_EmailsUnique ==
    /\ \A i, j \in 1..Len(reg.customers) :
         i # j => reg.customers[i].email # reg.customers[j].email
    /\ \A p \in Procs :
         reg.call[p].pc = "done" =>
            /\ Registered(reg.call[p].before, reg.call[p].email) =>
                  reg.call[p].res = "EmailAlreadyRegistered"
            /\ reg.call[p].res # "ok" =>
                  /\ reg.call[p].created = 0
                  /\ Registered(reg.customers, reg.call[p].email)
            /\ reg.call[p].res = "ok" =>
                  \E i \in 1..Len(reg.customers) :
                     /\ reg.customers[i].id = reg.call[p].created
                     /\ reg.customers[i].email = reg.call[p].email
                     /\ \A j \in 1..Len(reg.call[p].before) :
                          reg.call[p].before[j].id # reg.call[p].created

\* C26 witness: two register calls for one email, made when it was not
\* registered, both passed the existence check; one created the customer and
\* the other failed on the unique constraint.
C26_Witness ==
    /\ reg.call["p1"].pc = "done"
    /\ reg.call["p2"].pc = "done"
    /\ reg.call["p1"].email = reg.call["p2"].email
    /\ reg.call["p1"].before = <<>>
    /\ reg.call["p2"].before = <<>>
    /\ reg.call["p1"].res = "ok"
    /\ reg.call["p2"].res = "DuplicateKey"
    /\ Len(reg.customers) = 1

\* C30: every call in flight eventually returns; a returned call carries a
\* result and holds no unit of work; and the step that ends a unit of work
\* releases it and is either the commit, which returns success and adds the
\* transaction, or a rollback, which returns an error and leaves the
\* committed rows as they were.
C30_CallsReturnUnitEndedOnce ==
    /\ \A p \in Procs : (pc[p] \notin {"idle", "done"}) ~> (pc[p] = "done")
    /\ [](\A p \in Procs :
            Returned(p) => (unit[p] = NoUnit /\ res[p] # "none"))
    /\ [][\A p \in Procs :
            (UnitOpen(p) /\ pc'[p] # pc[p] /\ pc'[p] \notin
                {"saveTx", "saveEntry", "findAccount", "saveAccount", "commit"})
            => /\ pc'[p] = "done"
               /\ unit'[p] = NoUnit
               /\ \/ /\ pc[p] = "commit"
                     /\ res'[p] = "ok"
                     /\ transactions' = Append(transactions,
                                          [id |-> unit[p].tx,
                                           actorId |-> req[p].actor])
                  \/ /\ res'[p] \notin {"ok", "none"}
                     /\ Store' = Store]_vars

\* C30 witness: of two calls that waited for each other's rows, one was
\* failed by the deadlock detector and rolled back, the other committed, and
\* both have returned with their units released.
C30_Witness ==
    /\ Returned("p1")
    /\ Returned("p2")
    /\ res["p1"] = "Deadlock"
    /\ res["p2"] = "ok"
    /\ unit["p1"] = NoUnit
    /\ unit["p2"] = NoUnit
    /\ pre["p1"] = pre["p2"]

====
